---- MODULE Spec2Model ----
(***************************************************************************)
(* The ping-pong simulation engine (src/lib/GPGPU.ts over the              *)
(* GPUComputationRenderer it wraps) and the frame driver that steps it     *)
(* (src/ParticleSystem.tsx, src/hooks/useParticleGPGPU.ts).                *)
(*                                                                         *)
(* Numbers.  Time is counted in ticks, Resolution ticks per 1/30 s.        *)
(* A velocity component v is the real number v / VelOne; a position        *)
(* component p is the real number p / (VelOne * TicksPerSecond), so that   *)
(* pos += vel * delta is exact integer arithmetic.  VelOne is a power of   *)
(* 100 large enough that multiplying by a percentage stays exact for       *)
(* MaxSteps steps.  A texture holds one texel with channels x and w.       *)
(***************************************************************************)
EXTENDS Integers, Sequences, FiniteSets, TLC

\* ------------------------------------------------------------------ bounds
MaxSteps == 2
Resolution == 2
MaxDisposals == 2
MaxEntries == 2
MaxCount == 120

RECURSIVE Pow100(_)
Pow100(n) == IF n = 0 THEN 1 ELSE 100 * Pow100(n - 1)

VelOne == Pow100(MaxSteps)
TicksPerSecond == 30 * Resolution
MAX_DELTA_TIME == TicksPerSecond \div 30

Min(a, b) == IF a < b THEN a ELSE b

\* ------------------------------------------------------------- data shapes
VarNames == {"positionTex", "velocityTex"}
AllNames == VarNames \cup {"ghostTex"}
Props == {"time", "delta", "damping", "bogus"}

Texel(x, w) == [x |-> x, w |-> w]
ZeroTexel == Texel(0, 0)

\* Uniform cells: the {value: ...} objects the materials hold.  The driver
\* spreads one baseUniforms object into both materials, so the time and delta
\* cells are the same objects in the position and the velocity material.
TimeCell == 1
DeltaCell == 2
DampingCell == 3
Cells == {TimeCell, DeltaCell, DampingCell}

PositionMaterial ==
    [pass |-> "position",
     uniforms |-> [p \in Props |-> CASE p = "time" -> TimeCell
                                     [] p = "delta" -> DeltaCell
                                     [] OTHER -> 0]]

VelocityMaterial ==
    [pass |-> "velocity",
     uniforms |-> [p \in Props |-> CASE p = "time" -> TimeCell
                                     [] p = "delta" -> DeltaCell
                                     [] p = "damping" -> DampingCell
                                     [] OTHER -> 0]]

Materials == {PositionMaterial, VelocityMaterial}

\* ------------------------------------------------------ compute programs
\* Position pass: pos.xyz += vel.xyz * delta; (no boundary block: policy
\* none); pos.w = mod(pos.w + delta, 1.0); gl_FragColor = pos.
positionProgram(pos, vel, cells) ==
    Texel(pos.x + vel.x * cells[DeltaCell],
          (pos.w + cells[DeltaCell]) % TicksPerSecond)

\* Velocity pass with the fragment vel.xyz *= damping; gl_FragColor = vel.
\* The damping uniform is a percentage.
velocityProgram(pos, vel, cells) ==
    Texel((vel.x * cells[DampingCell]) \div 100, vel.w)

runProgram(material, pos, vel, cells) ==
    IF material.pass = "position"
    THEN positionProgram(pos, vel, cells)
    ELSE velocityProgram(pos, vel, cells)

\* ------------------------------------------- behaviours (behaviors/base.ts)
\* Configured numbers (bounds, bounce factor) are counted in hundredths; a
\* literal of the program text has one decimal and is counted in tenths.
\* Hundredth and Tenth are 0.01 and 0.1 in position units.
Hundredth == (VelOne * TicksPerSecond) \div 100
Tenth == 10 * Hundredth

\* bounceFactor?: number -- the value of an absent bounceFactor.
NoFactor == -1

BoundaryConfig(type, min, max, bounceFactor) ==
    [type |-> type, min |-> min, max |-> max, bounceFactor |-> bounceFactor]

\* JavaScript values, as far as detectGLSLType looks at them: the typeof
\* class (with null and array told apart), the truthy type flags, the fields
\* holding a number, the fields present, and for an array its length and
\* whether every element is a number.
Flags == {"isTexture", "isVector3", "isVector2", "isColor"}
JsValue(t, flags, numeric, present, len, allNumbers) ==
    [t |-> t, flags |-> flags, numeric |-> numeric, present |-> present,
     len |-> len, allNumbers |-> allNumbers]
JsPrimitive(t) == JsValue(t, {}, {}, {}, 0, FALSE)
JsArray(len, allNumbers) == JsValue("array", {}, {}, {}, len, allNumbers)
JsObject(flags, numeric, present) == JsValue("object", flags, numeric, present, 0, FALSE)

\* The type property of a parameter entry: absent, a string, or a number.
Tag(t, text) == [t |-> t, text |-> text]
NoTag == Tag("undefined", "")

\* An entry of a parameter map: null, or {value, type?}.
Entry(isNull, type, value) == [isNull |-> isNull, type |-> type, value |-> value]
NullEntry == Entry(TRUE, NoTag, JsPrimitive("undefined"))

\* detectGLSLType returns null.
NoType == "null"

vecN(len) == CASE len = 2 -> "vec2" [] len = 3 -> "vec3" [] len = 4 -> "vec4" [] OTHER -> NoType

\* detectGLSLType with the structural (duck typing) rules tried before the
\* type flags.
detectGLSLType_structureFirst(value) ==
    IF value.t = "number" THEN "float"
    ELSE IF value.t \notin {"object", "array"} THEN NoType
    ELSE IF "isTexture" \in value.flags THEN "sampler2D"
    ELSE IF "isVector3" \in value.flags \/ {"x", "y", "z"} \subseteq value.numeric THEN "vec3"
    ELSE IF "isVector2" \in value.flags
            \/ ({"x", "y"} \subseteq value.numeric /\ "z" \notin value.present) THEN "vec2"
    ELSE IF "isColor" \in value.flags \/ {"r", "g", "b"} \subseteq value.numeric THEN "vec3"
    ELSE IF value.t = "array" /\ value.len \in 2..4 /\ value.allNumbers THEN vecN(value.len)
    ELSE NoType

detectGLSLType(value) ==
    IF value.t = "number" THEN "float"
    ELSE IF value.t \notin {"object", "array"} THEN NoType
    ELSE IF "isTexture" \in value.flags THEN "sampler2D"
    ELSE IF "isVector3" \in value.flags THEN "vec3"
    ELSE IF "isVector2" \in value.flags THEN "vec2"
    ELSE IF "isColor" \in value.flags THEN "vec3"
    ELSE IF value.t = "array"
         THEN IF value.len >= 2 /\ value.len <= 4 /\ value.allNumbers
              THEN vecN(value.len) ELSE NoType
    ELSE IF {"x", "y", "z"} \subseteq value.numeric THEN "vec3"
    ELSE IF {"x", "y"} \subseteq value.numeric /\ "z" \notin value.present THEN "vec2"
    ELSE IF {"r", "g", "b"} \subseteq value.numeric THEN "vec3"
    ELSE NoType

\* A statement of a composed program.
Stmt(op, text, name, a, b, c) ==
    [op |-> op, text |-> text, name |-> name, a |-> a, b |-> b, c |-> c]
\* uniform <type> <name>;
DeclStmt(type, name) == Stmt("uniform", type, name, 0, 0, 0)
\* vec4 <local> = texture2D(<texture>, uv);
ReadStmt(local, texture) == Stmt("read", texture, local, 0, 0, 0)
\* an update fragment, verbatim
FragmentStmt(code) == Stmt("fragment", code, "", 0, 0, 0)
\* if (pos.x <cmp> <bound>) pos.x = <set>;                         (wrap)
\* if (pos.x <cmp> <bound>) { pos.x = <set>; vel.x *= -<factor>; } (bounce)
IfStmt(cmp, bound, set, kind, factor) == Stmt("if", cmp, kind, bound, set, factor)
\* pos.w = mod(pos.w + delta, 1.0);
AgeStmt == Stmt("age", "pos.w = mod(pos.w + delta, 1.0);", "", 0, 0, 0)
\* gl_FragColor = <local>;
WriteStmt(local) == Stmt("write", "gl_FragColor", local, 0, 0, 0)

\* uniform.type && typeof uniform.type === 'string'
explicitType(uniform) == uniform.type.t = "string" /\ uniform.type.text # ""

\* generateUniformDeclarations(uniforms): uniforms is the sequence of
\* [name, uniform] pairs Object.entries yields.  Reading .type of a null or
\* undefined entry throws a TypeError.
RECURSIVE generateUniformDeclarations(_)
generateUniformDeclarations(us) ==
    IF us = <<>> THEN [threw |-> FALSE, declarations |-> <<>>]
    ELSE LET name == us[1][1]
             uniform == us[1][2]
             rest == generateUniformDeclarations(Tail(us))
         IN IF uniform.isNull THEN [threw |-> TRUE, declarations |-> <<>>]
            ELSE IF rest.threw THEN rest
            ELSE IF explicitType(uniform)
            THEN [rest EXCEPT !.declarations = <<DeclStmt(uniform.type.text, name)>> \o @]
            ELSE IF detectGLSLType(uniform.value) # NoType
            THEN [rest EXCEPT !.declarations =
                     <<DeclStmt(detectGLSLType(uniform.value), name)>> \o @]
            ELSE rest

\* formatFloat = n.toFixed(1): n in hundredths, the literal in tenths, rounded
\* to the nearest tenth, a tie away from zero.  (Exact for the multiples of
\* 0.25, which binary floating point holds exactly, and for every number that
\* is not a tie.)
formatFloat(n) == IF n < 0 THEN -((5 - n) \div 10) ELSE (n + 5) \div 10

\* boundary.bounceFactor || 0.8: undefined and 0 are falsy.
bounceFactorOr(bounceFactor) ==
    IF bounceFactor = NoFactor \/ bounceFactor = 0 THEN 80 ELSE bounceFactor

\* getBoundaryShader(): the boundary block, one axis of it.
getBoundaryShader(boundary) ==
    LET minX == formatFloat(boundary.min)
        maxX == formatFloat(boundary.max)
        bounceFactor == formatFloat(bounceFactorOr(boundary.bounceFactor))
    IN IF boundary.type = "none" THEN <<>>
       ELSE IF boundary.type = "wrap"
       THEN <<IfStmt(">", maxX, minX, "wrap", 0), IfStmt("<", minX, maxX, "wrap", 0)>>
       ELSE <<IfStmt(">", maxX, maxX, "bounce", bounceFactor),
              IfStmt("<", minX, minX, "bounce", bounceFactor)>>

\* A behaviour: what getBoundaryConfig, get*UpdateLogic and get*Uniforms return.
Behavior(boundary, positionLogic, velocityLogic, positionUniforms, velocityUniforms) ==
    [boundary |-> boundary, positionLogic |-> positionLogic,
     velocityLogic |-> velocityLogic, positionUniforms |-> positionUniforms,
     velocityUniforms |-> velocityUniforms]

NoProgram == [threw |-> TRUE, program |-> <<>>]

\* getPositionShader with the age update ahead of the boundary block.
getPositionShader_ageFirst(b) ==
    LET d == generateUniformDeclarations(b.positionUniforms)
    IN IF d.threw THEN NoProgram
       ELSE [threw |-> FALSE,
             program |-> <<DeclStmt("float", "time"), DeclStmt("float", "delta")>>
                         \o d.declarations
                         \o <<ReadStmt("pos", "positionTex"), ReadStmt("vel", "velocityTex"),
                              FragmentStmt(b.positionLogic), AgeStmt>>
                         \o getBoundaryShader(b.boundary)
                         \o <<WriteStmt("pos")>>]

\* getPositionShader without the age update.
getPositionShader_noAge(b) ==
    LET d == generateUniformDeclarations(b.positionUniforms)
    IN IF d.threw THEN NoProgram
       ELSE [threw |-> FALSE,
             program |-> <<DeclStmt("float", "time"), DeclStmt("float", "delta")>>
                         \o d.declarations
                         \o <<ReadStmt("pos", "positionTex"), ReadStmt("vel", "velocityTex"),
                              FragmentStmt(b.positionLogic)>>
                         \o getBoundaryShader(b.boundary)
                         \o <<WriteStmt("pos")>>]

getPositionShader(b) ==
    LET d == generateUniformDeclarations(b.positionUniforms)
    IN IF d.threw THEN NoProgram
       ELSE [threw |-> FALSE,
             program |-> <<DeclStmt("float", "time"), DeclStmt("float", "delta")>>
                         \o d.declarations
                         \o <<ReadStmt("pos", "positionTex"), ReadStmt("vel", "velocityTex"),
                              FragmentStmt(b.positionLogic)>>
                         \o getBoundaryShader(b.boundary)
                         \o <<AgeStmt, WriteStmt("pos")>>]

getVelocityShader(b) ==
    LET d == generateUniformDeclarations(b.velocityUniforms)
    IN IF d.threw THEN NoProgram
       ELSE [threw |-> FALSE,
             program |-> <<DeclStmt("float", "time"), DeclStmt("float", "delta")>>
                         \o d.declarations
                         \o <<ReadStmt("vel", "velocityTex"), ReadStmt("pos", "positionTex"),
                              FragmentStmt(b.velocityLogic), WriteStmt("vel")>>]

\* The fragments the behaviours of the model use.
DefaultPositionLogic == "pos.xyz += vel.xyz * delta;"
DefaultVelocityLogic == "vel.xyz *= 0.99;"

\* What a fragment shader invocation computes for one grid cell: env holds
\* the textures bound, the locals pos and vel, delta and gl_FragColor.
\* (A velocity is a multiple of 100 for MaxSteps steps, so * 0.99 is exact.)
runFragment(code, env) ==
    CASE code = DefaultPositionLogic -> [env EXCEPT !.pos.x = @ + env.vel.x * env.delta]
      [] code = DefaultVelocityLogic -> [env EXCEPT !.vel.x = 99 * (@ \div 100)]
      [] OTHER -> env

runIf(st, env) ==
    IF \/ (st.text = ">" /\ env.pos.x > st.a * Tenth)
       \/ (st.text = "<" /\ env.pos.x < st.a * Tenth)
    THEN [env EXCEPT !.pos.x = st.b * Tenth,
                     !.vel.x = IF st.name = "bounce" THEN (@ * (-st.c)) \div 10 ELSE @]
    ELSE env

runStmt(st, env) ==
    CASE st.op = "read" -> IF st.name = "pos"
                          THEN [env EXCEPT !.pos = env.tex[st.text]]
                          ELSE [env EXCEPT !.vel = env.tex[st.text]]
      [] st.op = "fragment" -> runFragment(st.text, env)
      [] st.op = "if" -> runIf(st, env)
      [] st.op = "age" -> [env EXCEPT !.pos.w = (@ + env.delta) % TicksPerSecond]
      [] st.op = "write" -> [env EXCEPT !.out = IF st.name = "pos" THEN env.pos ELSE env.vel]
      [] OTHER -> env

RECURSIVE runStmts(_, _)
runStmts(program, env) ==
    IF program = <<>> THEN env ELSE runStmts(Tail(program), runStmt(program[1], env))

execProgram(program, pos, vel, delta) ==
    runStmts(program, [tex |-> [positionTex |-> pos, velocityTex |-> vel],
                       pos |-> ZeroTexel, vel |-> ZeroTexel, delta |-> delta,
                       out |-> ZeroTexel])

\* --------------------------------------------------------------- state
VARIABLES
    variables,      \* GPGPU.variables: name -> variable (index into gpuCompute.variables, 0 = undefined)
    gpuCompute,     \* GPGPU.gpuCompute: the computation renderer
    uniformCells,   \* the value of every uniform cell of the materials
    call,           \* the last engine call: operation, arguments, outcome
    steps,          \* number of compute() steps run (since init(); by the driver, over the engines it built)
    seed,           \* per name, the data handed to the addVariable that registered it
    disposals,      \* number of dispose() calls made
    written,        \* per name, the data the last step (or init) left as the variable's state
    timeRef,        \* driver: accumulated elapsed time (timeRef.current)
    prevUniformsRef,\* driver: last uploaded value of each behaviour parameter
    behavior,       \* driver: the values the behaviour currently supplies
    update,         \* driver: the update prop
    display,        \* driver: the textures handed to the display material
    frame,          \* driver: frames run, raw delta of the last one, sum of the clamped deltas
    behaviorObj,    \* a behaviour: boundary configuration, update fragments, parameter maps
    particle,       \* one grid cell stepped with the behaviour's programs: stored pos and vel, last locals
    shaders,        \* the programs composed for behaviorObj
    uniformsMap,    \* a parameter map handed to generateUniformDeclarations
    declarations,   \* what generateUniformDeclarations made of it
    count,          \* the count prop
    layout,         \* grid side of the engine and of the seed data, texture coordinates of the geometry
    component,      \* the mounted component: variant, active engine, registered effect cleanup, pending effects
    engines         \* every engine instance the component built: disposed or not, used after dispose() or not

engineVars == <<variables, gpuCompute, uniformCells>>
ghostVars == <<call, steps, seed, written, disposals>>
driverVars == <<timeRef, prevUniformsRef, behavior, update, display, frame>>
composerVars == <<behaviorObj, particle, shaders, uniformsMap, declarations>>
gridVars == <<count, layout>>
lifecycleVars == <<component, engines>>
vars == <<variables, gpuCompute, uniformCells, call, steps, seed, written, disposals,
          timeRef, prevUniformsRef, behavior, update, display, frame,
          behaviorObj, particle, shaders, uniformsMap, declarations, count, layout,
          component, engines>>

Range(s) == {s[i] : i \in 1..Len(s)}
NextIndex(cur) == IF cur = 0 THEN 1 ELSE 0

\* Results of a call.
RetVoid == [kind |-> "void", buf |-> 0, data |-> ZeroTexel, cell |-> 0]
RetNull == [kind |-> "null", buf |-> 0, data |-> ZeroTexel, cell |-> 0]
RetUndefined == [kind |-> "undefined", buf |-> 0, data |-> ZeroTexel, cell |-> 0]
RetTexture(buf, data) == [kind |-> "texture", buf |-> buf, data |-> data, cell |-> 0]
RetUniform(cell) == [kind |-> "uniform", buf |-> 0, data |-> ZeroTexel, cell |-> cell]

\* ------------------------------------------- the computation renderer
\* createTexture(): a fresh data texture, all zero.
gc_createTexture == ZeroTexel

gc_find(gc, name) == {i \in 1..Len(gc.variables) : gc.variables[i].name = name}

\* addVariableByMat(name, material, initialValueTexture): registers the
\* variable, allocates its two buffers and seeds the current one; a name
\* that is already registered is an error.  rendered counts the passes run
\* for the variable.
gc_addVariableByMat(gc, name, material, texture) ==
    IF gc_find(gc, name) # {}
    THEN [threw |-> TRUE, gc |-> gc, variable |-> 0]
    ELSE [threw |-> FALSE,
          gc |-> [gc EXCEPT !.variables = Append(@,
                     [name |-> name,
                      material |-> material,
                      initialValueTexture |-> texture,
                      declared |-> FALSE,
                      dependencies |-> <<>>,
                      rendered |-> 0,
                      renderTargets |-> <<texture, gc_createTexture>>])],
          variable |-> Len(gc.variables) + 1]

\* setVariableDependencies(variable, dependencies)
gc_setVariableDependencies(gc, variable, dependencies) ==
    IF variable = 0
    THEN [threw |-> TRUE, gc |-> gc]
    ELSE [threw |-> FALSE,
          gc |-> [gc EXCEPT !.variables[variable].declared = TRUE,
                            !.variables[variable].dependencies = dependencies]]

gc_valid(gc) ==
    \A i \in 1..Len(gc.variables) :
        /\ gc.variables[i].declared
        /\ \A d \in Range(gc.variables[i].dependencies) : d # 0

\* init(): validates the dependency declarations, then copies every
\* variable's seed into both buffers of its pair.
gc_init(gc) ==
    IF ~gc_valid(gc)
    THEN [threw |-> TRUE, gc |-> gc]
    ELSE [threw |-> FALSE,
          gc |-> [gc EXCEPT
                    !.variables = [i \in 1..Len(gc.variables) |->
                        [gc.variables[i] EXCEPT !.renderTargets =
                            <<gc.variables[i].initialValueTexture,
                              gc.variables[i].initialValueTexture>>]],
                    !.currentTextureIndex = 0,
                    !.initialized = TRUE]]

\* What a program samples from the texture called s: the buffer with index
\* idx of the dependency of that name.
gc_sample(vs, v, s, idx) ==
    LET ds == {j \in Range(v.dependencies) : j # 0 /\ vs[j].name = s}
    IN IF ds = {} THEN ZeroTexel
       ELSE vs[CHOOSE j \in ds : TRUE].renderTargets[idx + 1]

\* Mutant: only the first variable is rendered.
gc_renderAll_first(i, vs, readIdx, writeIdx, cells) ==
    IF Len(vs) = 0 THEN vs
    ELSE [vs EXCEPT ![1].renderTargets[writeIdx + 1] =
                        runProgram(vs[1].material,
                                   gc_sample(vs, vs[1], "positionTex", readIdx),
                                   gc_sample(vs, vs[1], "velocityTex", readIdx),
                                   cells),
                    ![1].rendered = @ + 1]

RECURSIVE gc_renderAll(_, _, _, _, _)
gc_renderAll(i, vs, readIdx, writeIdx, cells) ==
    IF i > Len(vs) THEN vs
    ELSE LET v == vs[i]
             out == runProgram(v.material,
                               gc_sample(vs, v, "positionTex", readIdx),
                               gc_sample(vs, v, "velocityTex", readIdx),
                               cells)
         IN gc_renderAll(i + 1,
                [vs EXCEPT ![i].renderTargets[writeIdx + 1] = out,
                           ![i].rendered = @ + 1],
                readIdx, writeIdx, cells)

\* compute(): every variable's program reads the current buffers of its
\* dependencies and writes the variable's other buffer; then the buffers swap.
\* Mutant: the step writes the other buffer but the buffers are not swapped.
gc_compute_noswap(gc, cells) ==
    IF Len(gc.variables) = 0 THEN gc
    ELSE [gc EXCEPT
            !.variables = gc_renderAll(1, gc.variables, gc.currentTextureIndex,
                                       NextIndex(gc.currentTextureIndex), cells),
            !.lastRead = gc.currentTextureIndex,
            !.lastWrite = NextIndex(gc.currentTextureIndex)]

\* lastRead and lastWrite record which buffer index the step read and wrote.
gc_compute(gc, cells) ==
    IF Len(gc.variables) = 0 THEN gc
    ELSE [gc EXCEPT
            !.variables = gc_renderAll(1, gc.variables, gc.currentTextureIndex,
                                       NextIndex(gc.currentTextureIndex), cells),
            !.lastRead = gc.currentTextureIndex,
            !.lastWrite = NextIndex(gc.currentTextureIndex),
            !.currentTextureIndex = NextIndex(gc.currentTextureIndex)]

\* getCurrentRenderTarget(variable): the current buffer, none before init().
gc_getCurrentRenderTarget(gc, variable) ==
    IF ~gc.initialized THEN RetNull
    ELSE RetTexture(gc.currentTextureIndex,
                    gc.variables[variable].renderTargets[gc.currentTextureIndex + 1])

RECURSIVE gc_buffers(_, _)
gc_buffers(vs, i) ==
    IF i > Len(vs) THEN 0 ELSE Len(vs[i].renderTargets) + gc_buffers(vs, i + 1)

\* dispose(): releases every buffer and clears the variable list.
gc_dispose(gc) ==
    [gc EXCEPT !.released = @ + gc_buffers(gc.variables, 1),
               !.variables = <<>>,
               !.initialized = FALSE,
               !.disposed = TRUE]

\* ------------------------------------------------------------- GPGPU
NoVariables == [n \in AllNames |-> 0]
NoIndex == 2

\* new GPGPU(renderer, w, h)
NewGpuCompute ==
    [variables |-> <<>>, currentTextureIndex |-> 0, initialized |-> FALSE,
     disposed |-> FALSE, released |-> 0, lastRead |-> NoIndex, lastWrite |-> NoIndex]

\* Mutant: the seed data is not put into the texture.
GPGPU_addVariable_unseeded(vs, gc, name, data, material) ==
    LET r == gc_addVariableByMat(gc, name, material, gc_createTexture)
    IN IF r.threw
       THEN [threw |-> TRUE, variables |-> vs, gc |-> gc]
       ELSE [threw |-> FALSE,
             variables |-> [vs EXCEPT ![name] = r.variable],
             gc |-> r.gc]

\* Mutant: a second registration of a name replaces the first.
GPGPU_addVariable_overwrite(vs, gc, name, data, material) ==
    [threw |-> FALSE,
     variables |-> [vs EXCEPT ![name] = Len(gc.variables) + 1],
     gc |-> [gc EXCEPT !.variables = Append(@,
                [name |-> name,
                 material |-> material,
                 initialValueTexture |-> data,
                 declared |-> FALSE,
                 dependencies |-> <<>>,
                 rendered |-> 0,
                 renderTargets |-> <<data, gc_createTexture>>])]]

GPGPU_addVariable(vs, gc, name, data, material) ==
    LET texture == data
        r == gc_addVariableByMat(gc, name, material, texture)
    IN IF r.threw
       THEN [threw |-> TRUE, variables |-> vs, gc |-> gc]
       ELSE [threw |-> FALSE,
             variables |-> [vs EXCEPT ![name] = r.variable],
             gc |-> r.gc]

GPGPU_getVariable(vs, name) == vs[name]

\* Mutant: the other variables are dropped from the dependency list.
GPGPU_setVariableDependencies_own(vs, gc, variable, dependencies) ==
    gc_setVariableDependencies(gc, vs[variable], <<vs[variable]>>)

GPGPU_setVariableDependencies(vs, gc, variable, dependencies) ==
    gc_setVariableDependencies(gc, vs[variable],
        [i \in 1..Len(dependencies) |-> vs[dependencies[i]]])

\* Mutant: a failure of the renderer's init() is swallowed.
GPGPU_init_silent(gc) == [threw |-> FALSE, gc |-> gc_init(gc).gc]

GPGPU_init(gc) == gc_init(gc)

\* Mutant: the renderer is stepped twice.
GPGPU_compute_twice(gc, cells) == gc_compute(gc_compute(gc, cells), cells)

GPGPU_compute(gc, cells) == gc_compute(gc, cells)

\* Mutant: an unregistered name yields undefined instead of null.
GPGPU_getUniform_undefined(vs, gc, name, property) ==
    LET variable == vs[name]
    IN IF variable = 0 THEN RetUndefined
       ELSE LET cell == gc.variables[variable].material.uniforms[property]
            IN IF cell = 0 THEN RetUndefined ELSE RetUniform(cell)

GPGPU_getUniform(vs, gc, name, property) ==
    LET variable == vs[name]
    IN IF variable = 0 THEN RetNull
       ELSE LET cell == gc.variables[variable].material.uniforms[property]
            IN IF cell = 0 THEN RetUndefined ELSE RetUniform(cell)

GPGPU_setUniform(vs, gc, cells, name, property, value) ==
    LET uniform == GPGPU_getUniform(vs, gc, name, property)
    IN IF uniform.kind = "uniform"
       THEN [cells EXCEPT ![uniform.cell] = value]
       ELSE cells

\* Mutant: always the first buffer of the pair.
GPGPU_getCurrentRenderTarget_first(vs, gc, name) ==
    LET variable == vs[name]
    IN IF variable = 0 THEN RetNull
       ELSE RetTexture(0, gc.variables[variable].renderTargets[1])

GPGPU_getCurrentRenderTarget(vs, gc, name) ==
    LET variable == vs[name]
    IN IF variable = 0 THEN RetNull
       ELSE gc_getCurrentRenderTarget(gc, variable)

\* Mutant: the registry is not cleared.
GPGPU_dispose_keep(vs, gc) ==
    [variables |-> vs, gc |-> gc_dispose(gc)]

GPGPU_dispose(vs, gc) ==
    [variables |-> NoVariables, gc |-> gc_dispose(gc)]

\* Only the seed texture is rewritten; the render targets are left as they are.
GPGPU_resetVariable(vs, gc, name, data) ==
    LET variable == vs[name]
    IN IF variable # 0
       THEN [gc EXCEPT !.variables[variable].initialValueTexture = data]
       ELSE gc

\* --------------------------------------------------- engine: the calls
\* The calls' inputs.  A variable is added with either seed and material;
\* the programs sample both textures, so the dependency lists a caller
\* passes name both, and a faulty one names a texture that is not registered.
AddInputs == {<<Texel(0, 0), PositionMaterial>>, <<Texel(VelOne, 1), VelocityMaterial>>}
ResetData == {Texel(2 * VelOne, 2)}
UniformProps == {"delta", "bogus"}
DepLists == {<<"positionTex", "velocityTex">>, <<"positionTex", "ghostTex">>}
UniformInputs ==
    {<<"delta", TicksPerSecond>>, <<"damping", 100>>, <<"bogus", 1>>}

\* The data in the current buffer of the variable registered under a name.
CurrentData(vs, gc, n) ==
    IF vs[n] = 0 \/ vs[n] > Len(gc.variables) THEN ZeroTexel
    ELSE gc.variables[vs[n]].renderTargets[gc.currentTextureIndex + 1]

Called(op, name, data, threw, ret) ==
    [op |-> op, name |-> name, data |-> data, threw |-> threw, ret |-> ret,
     prop |-> "", value |-> 0]

CalledUniform(op, name, prop, value, ret) ==
    [op |-> op, name |-> name, data |-> ZeroTexel, threw |-> FALSE, ret |-> ret,
     prop |-> prop, value |-> value]

Undefined == -1
NoUniforms == [n \in {} |-> 0]

\* The behaviour used when none is given, and the composer and grid state
\* of a component that has composed and laid out nothing yet.
DefaultBehavior ==
    Behavior(BoundaryConfig("none", 0, 0, NoFactor),
             DefaultPositionLogic, DefaultVelocityLogic, <<>>, <<>>)
NoParticle == [pos |-> ZeroTexel, vel |-> ZeroTexel, localVel |-> 0, delta |-> 0, n |-> 0]
NoShaders == [position |-> NoProgram, velocity |-> NoProgram]
NoDeclarations == [threw |-> FALSE, declarations |-> <<>>, done |-> FALSE]
NoLayout == [size |-> 0, seedCells |-> 0, uvs |-> <<>>]

InitComposerIdle ==
    /\ behaviorObj = DefaultBehavior
    /\ particle = NoParticle
    /\ shaders = NoShaders
    /\ uniformsMap = <<>>
    /\ declarations = NoDeclarations

InitGridIdle ==
    /\ count = 0
    /\ layout = NoLayout

\* No component is mounted.
NoEffect == [engine |-> 0, update |-> FALSE]
NoComponent ==
    [variant |-> "", mounted |-> FALSE, engine |-> 0, effect |-> NoEffect,
     raf |-> 0, pending |-> FALSE, initialized |-> FALSE, renders |-> 0]

InitLifecycleIdle ==
    /\ component = NoComponent
    /\ engines = <<>>

InitDriverIdle ==
    /\ timeRef = 0
    /\ prevUniformsRef = [position |-> NoUniforms, velocity |-> [damping |-> Undefined]]
    /\ behavior = [damping |-> 50]
    /\ update = TRUE
    /\ display = [positionTex |-> RetNull, velocityTex |-> RetNull]
    /\ frame = [n |-> 0, delta |-> 0, sum |-> 0]

InitEngineIdle ==
    /\ variables = NoVariables
    /\ gpuCompute = NewGpuCompute
    /\ uniformCells = [c \in Cells |-> IF c = DampingCell THEN 50 ELSE 0]
    /\ call = Called("new", "ghostTex", ZeroTexel, FALSE, RetVoid)
    /\ steps = 0
    /\ seed = [n \in VarNames |-> ZeroTexel]
    /\ written = [n \in VarNames |-> ZeroTexel]
    /\ disposals = 0
    /\ InitDriverIdle

Init ==
    /\ InitEngineIdle
    /\ InitComposerIdle
    /\ InitGridIdle
    /\ InitLifecycleIdle

AddVariable ==
    /\ ~gpuCompute.initialized /\ ~gpuCompute.disposed
    /\ \E name \in VarNames, in \in AddInputs :
        LET r == GPGPU_addVariable(variables, gpuCompute, name, in[1], in[2])
        IN /\ variables' = r.variables
           /\ gpuCompute' = r.gc
           /\ seed' = IF r.threw THEN seed ELSE [seed EXCEPT ![name] = in[1]]
           /\ call' = Called("addVariable", name, in[1], r.threw, RetVoid)
    /\ UNCHANGED <<uniformCells, steps, written, disposals>>
    /\ UNCHANGED driverVars
    /\ UNCHANGED <<composerVars, gridVars, lifecycleVars>>

SetVariableDependencies ==
    /\ ~gpuCompute.initialized /\ ~gpuCompute.disposed
    /\ \E name \in VarNames, deps \in DepLists :
        LET r == GPGPU_setVariableDependencies(variables, gpuCompute, name, deps)
        IN /\ gpuCompute' = r.gc
           /\ call' = Called("setVariableDependencies", name, ZeroTexel, r.threw, RetVoid)
    /\ UNCHANGED <<variables, uniformCells, steps, seed, written, disposals>>
    /\ UNCHANGED driverVars
    /\ UNCHANGED <<composerVars, gridVars, lifecycleVars>>

InitEngine ==
    /\ ~gpuCompute.initialized /\ ~gpuCompute.disposed
    /\ LET r == GPGPU_init(gpuCompute)
       IN /\ gpuCompute' = r.gc
          /\ call' = Called("init", "ghostTex", ZeroTexel, r.threw, RetVoid)
          /\ written' = IF r.threw THEN written
                        ELSE [n \in VarNames |-> CurrentData(variables, r.gc, n)]
    /\ UNCHANGED <<variables, uniformCells, steps, seed, disposals>>
    /\ UNCHANGED driverVars
    /\ UNCHANGED <<composerVars, gridVars, lifecycleVars>>

Compute ==
    /\ gpuCompute.initialized \/ gpuCompute.disposed
    /\ steps < MaxSteps
    /\ gpuCompute' = GPGPU_compute(gpuCompute, uniformCells)
    /\ steps' = IF Len(gpuCompute.variables) = 0 THEN steps ELSE steps + 1
    /\ written' = [n \in VarNames |-> CurrentData(variables, gpuCompute', n)]
    /\ call' = Called("compute", "ghostTex", ZeroTexel, FALSE, RetVoid)
    /\ UNCHANGED <<variables, uniformCells, seed, disposals>>
    /\ UNCHANGED driverVars
    /\ UNCHANGED <<composerVars, gridVars, lifecycleVars>>

GetUniform ==
    /\ \E name \in AllNames, property \in UniformProps :
        call' = CalledUniform("getUniform", name, property, 0,
                       GPGPU_getUniform(variables, gpuCompute, name, property))
    /\ UNCHANGED <<variables, gpuCompute, uniformCells, steps, seed, written, disposals>>
    /\ UNCHANGED driverVars
    /\ UNCHANGED <<composerVars, gridVars, lifecycleVars>>

SetUniform ==
    /\ \E name \in AllNames, in \in UniformInputs :
        /\ uniformCells' = GPGPU_setUniform(variables, gpuCompute, uniformCells,
                                            name, in[1], in[2])
        /\ call' = CalledUniform("setUniform", name, in[1], in[2], RetVoid)
    /\ UNCHANGED <<variables, gpuCompute, steps, seed, written, disposals>>
    /\ UNCHANGED driverVars
    /\ UNCHANGED <<composerVars, gridVars, lifecycleVars>>

GetCurrentRenderTarget ==
    /\ \E name \in AllNames :
        call' = Called("getCurrentRenderTarget", name, ZeroTexel, FALSE,
                       GPGPU_getCurrentRenderTarget(variables, gpuCompute, name))
    /\ UNCHANGED <<variables, gpuCompute, uniformCells, steps, seed, written, disposals>>
    /\ UNCHANGED driverVars
    /\ UNCHANGED <<composerVars, gridVars, lifecycleVars>>

ResetVariable ==
    /\ gpuCompute.initialized \/ gpuCompute.disposed
    /\ \E name \in AllNames, data \in ResetData :
        /\ gpuCompute' = GPGPU_resetVariable(variables, gpuCompute, name, data)
        /\ call' = Called("resetVariable", name, data, FALSE, RetVoid)
    /\ UNCHANGED <<variables, uniformCells, steps, seed, written, disposals>>
    /\ UNCHANGED driverVars
    /\ UNCHANGED <<composerVars, gridVars, lifecycleVars>>

Dispose ==
    /\ disposals < MaxDisposals
    /\ disposals' = disposals + 1
    /\ LET r == GPGPU_dispose(variables, gpuCompute)
       IN /\ variables' = r.variables
          /\ gpuCompute' = r.gc
    /\ call' = Called("dispose", "ghostTex", ZeroTexel, FALSE, RetVoid)
    /\ UNCHANGED <<uniformCells, steps, seed, written>>
    /\ UNCHANGED driverVars
    /\ UNCHANGED <<composerVars, gridVars, lifecycleVars>>

Next ==
    \/ AddVariable
    \/ SetVariableDependencies
    \/ InitEngine
    \/ Compute
    \/ GetUniform
    \/ SetUniform
    \/ GetCurrentRenderTarget
    \/ ResetVariable
    \/ Dispose

Spec == Init /\ [][Next]_vars

\* ------------------------------------------------------ the frame driver
\* The component builds its engine once (useMemo): two variables with the
\* materials above, each depending on both, then init().
BuildEngine(positionData, velocityData) ==
    LET a1 == GPGPU_addVariable(NoVariables, NewGpuCompute, "positionTex",
                                positionData, PositionMaterial)
        a2 == GPGPU_addVariable(a1.variables, a1.gc, "velocityTex",
                                velocityData, VelocityMaterial)
        d1 == GPGPU_setVariableDependencies(a2.variables, a2.gc, "positionTex",
                                            <<"positionTex", "velocityTex">>)
        d2 == GPGPU_setVariableDependencies(a2.variables, d1.gc, "velocityTex",
                                            <<"positionTex", "velocityTex">>)
        i == GPGPU_init(d2.gc)
    IN [variables |-> a2.variables, gc |-> i.gc]

\* The initial data the configuration generates, and the values a behaviour
\* parameter takes.
PositionData == {Texel(0, 0)}
VelocityData == {Texel(0, 0), Texel(VelOne, 0)}
DampingValues == {50, 100}
RawDeltas == {1, MAX_DELTA_TIME, MAX_DELTA_TIME + 1, 5 * TicksPerSecond}

\* Mutant: the raw frame delta is used.
clampDelta_raw(delta) == delta

\* const dt = Math.min(delta, MAX_DELTA_TIME)
clampDelta(delta) == Min(delta, MAX_DELTA_TIME)

\* The time uploaded is the elapsed time with this frame's delta added.
uploadedTime_after(elapsed, dt) == elapsed + dt

\* const t = timeRef.current, read before timeRef.current += dt
uploadedTime(elapsed, dt) == elapsed

\* updateUniforms for the velocity pass: upload a behaviour parameter when it
\* differs from the cached value, and cache it.
uploadChanged(vs, gc, cells, prev, uniforms) ==
    IF prev.velocity.damping # uniforms.damping
    THEN [cells |-> GPGPU_setUniform(vs, gc, cells, "velocityTex", "damping",
                                     uniforms.damping),
          prev |-> [prev EXCEPT !.velocity.damping = uniforms.damping]]
    ELSE [cells |-> cells, prev |-> prev]

InitDriver ==
    /\ \E positionData \in PositionData, velocityData \in VelocityData,
          damping \in DampingValues :
        LET e == BuildEngine(positionData, velocityData)
        IN /\ variables = e.variables
           /\ gpuCompute = e.gc
           /\ uniformCells = [c \in Cells |-> IF c = DampingCell THEN damping ELSE 0]
           /\ behavior = [damping |-> damping]
           /\ seed = [n \in VarNames |->
                        IF n = "positionTex" THEN positionData ELSE velocityData]
           /\ written = [n \in VarNames |-> CurrentData(e.variables, e.gc, n)]
    /\ call = Called("init", "ghostTex", ZeroTexel, FALSE, RetVoid)
    /\ steps = 0
    /\ disposals = 0
    /\ timeRef = 0
    /\ prevUniformsRef = [position |-> NoUniforms, velocity |-> [damping |-> Undefined]]
    /\ update = TRUE
    /\ display = [positionTex |-> RetNull, velocityTex |-> RetNull]
    /\ frame = [n |-> 0, delta |-> 0, sum |-> 0]
    /\ InitComposerIdle
    /\ InitGridIdle
    /\ InitLifecycleIdle

\* useFrame((state, delta) => ...)
Frame ==
    /\ update
    /\ steps < MaxSteps
    /\ \E delta \in RawDeltas :
        LET dt == clampDelta(delta)
            t == uploadedTime(timeRef, dt)
            c1 == GPGPU_setUniform(variables, gpuCompute, uniformCells, "positionTex", "time", t)
            c2 == GPGPU_setUniform(variables, gpuCompute, c1, "velocityTex", "time", t)
            c3 == GPGPU_setUniform(variables, gpuCompute, c2, "positionTex", "delta", dt)
            c4 == GPGPU_setUniform(variables, gpuCompute, c3, "velocityTex", "delta", dt)
            up == uploadChanged(variables, gpuCompute, c4, prevUniformsRef, behavior)
            gc == GPGPU_compute(gpuCompute, up.cells)
        IN /\ timeRef' = timeRef + dt
           /\ uniformCells' = up.cells
           /\ prevUniformsRef' = up.prev
           /\ gpuCompute' = gc
           /\ display' = [positionTex |-> GPGPU_getCurrentRenderTarget(variables, gc, "positionTex"),
                          velocityTex |-> GPGPU_getCurrentRenderTarget(variables, gc, "velocityTex")]
           /\ written' = [n \in VarNames |-> CurrentData(variables, gc, n)]
           /\ steps' = IF Len(gpuCompute.variables) = 0 THEN steps ELSE steps + 1
           /\ frame' = [n |-> frame.n + 1, delta |-> delta,
                        sum |-> frame.sum + (IF delta > MAX_DELTA_TIME
                                             THEN MAX_DELTA_TIME ELSE delta)]
    /\ call' = Called("frame", "ghostTex", ZeroTexel, FALSE, RetVoid)
    /\ UNCHANGED <<variables, seed, disposals, behavior, update>>
    /\ UNCHANGED <<composerVars, gridVars, lifecycleVars>>

\* useFrame with update false: the body is skipped.
SkippedFrame ==
    /\ ~update
    /\ call' = Called("frameSkipped", "ghostTex", ZeroTexel, FALSE, RetVoid)
    /\ UNCHANGED <<variables, gpuCompute, uniformCells, steps, seed, written, disposals>>
    /\ UNCHANGED <<driverVars, composerVars, gridVars, lifecycleVars>>

\* reset() of the imperative handle
Reset ==
    /\ \E positionData \in PositionData, velocityData \in VelocityData :
        LET g1 == GPGPU_resetVariable(variables, gpuCompute, "positionTex", positionData)
            g2 == GPGPU_resetVariable(variables, g1, "velocityTex", velocityData)
        IN gpuCompute' = g2
    /\ timeRef' = 0
    /\ prevUniformsRef' = [position |-> NoUniforms, velocity |-> [damping |-> Undefined]]
    /\ frame' = [frame EXCEPT !.sum = 0]
    /\ call' = Called("reset", "ghostTex", ZeroTexel, FALSE, RetVoid)
    /\ UNCHANGED <<variables, uniformCells, steps, seed, written, disposals,
                   behavior, update, display>>
    /\ UNCHANGED <<composerVars, gridVars, lifecycleVars>>

\* The application changes a parameter of the behaviour object.
SetBehaviorParameter ==
    /\ \E damping \in DampingValues :
        /\ damping # behavior.damping
        /\ behavior' = [damping |-> damping]
    /\ call' = Called("setBehaviorParameter", "ghostTex", ZeroTexel, FALSE, RetVoid)
    /\ UNCHANGED <<variables, gpuCompute, uniformCells, steps, seed, written,
                   disposals, timeRef, prevUniformsRef, update, display, frame>>
    /\ UNCHANGED <<composerVars, gridVars, lifecycleVars>>

\* The update prop changes.
SetUpdate ==
    /\ update' = ~update
    /\ call' = Called("setUpdate", "ghostTex", ZeroTexel, FALSE, RetVoid)
    /\ UNCHANGED <<variables, gpuCompute, uniformCells, steps, seed, written,
                   disposals, timeRef, prevUniformsRef, behavior, display, frame>>
    /\ UNCHANGED <<composerVars, gridVars, lifecycleVars>>

\* count or a shader changes: the gpgpu useMemo builds a new engine, whose
\* materials take the parameter values the behaviour supplies now, and the
\* effect cleanup disposes the old one.  timeRef and the uniform cache are
\* refs of the component and stay as they are.
Recreate ==
    /\ disposals < MaxDisposals
    /\ \E positionData \in PositionData, velocityData \in VelocityData :
        LET e == BuildEngine(positionData, velocityData)
        IN /\ variables' = e.variables
           /\ gpuCompute' = e.gc
           /\ seed' = [n \in VarNames |->
                         IF n = "positionTex" THEN positionData ELSE velocityData]
           /\ written' = [n \in VarNames |-> CurrentData(e.variables, e.gc, n)]
    /\ uniformCells' = [c \in Cells |-> IF c = DampingCell THEN behavior.damping ELSE 0]
    /\ disposals' = disposals + 1
    /\ call' = Called("recreate", "ghostTex", ZeroTexel, FALSE, RetVoid)
    /\ UNCHANGED <<steps, timeRef, prevUniformsRef, behavior, update, display, frame>>
    /\ UNCHANGED <<composerVars, gridVars, lifecycleVars>>

NextDriver ==
    \/ Frame
    \/ SkippedFrame
    \/ Recreate
    \/ Reset
    \/ SetBehaviorParameter
    \/ SetUpdate

SpecDriver == InitDriver /\ [][NextDriver]_vars

\* ------------------------------------- a behaviour's programs, stepped
\* Boundary configurations: bounds and bounce factor in hundredths.
Boxes == {<<-100, 100>>, <<-25, 25>>}
BounceFactors == {NoFactor, 0, 50, 80}
BoundaryConfigs ==
    {BoundaryConfig("none", 0, 0, NoFactor)}
    \cup {BoundaryConfig("wrap", b[1], b[2], NoFactor) : b \in Boxes}
    \cup {BoundaryConfig("bounce", b[1], b[2], f) : b \in Boxes, f \in BounceFactors}

\* Seed position (hundredths), velocity (units per second) and age (ticks)
\* of the cell, and the clamped frame deltas (ticks).
ParticlePositions == {-75, 0, 75}
ParticleVelocities == {-30, 0, 30}
ParticleAges == {0, TicksPerSecond - 1}
StepDeltas == {1, MAX_DELTA_TIME}

compose(b) == [position |-> getPositionShader(b), velocity |-> getVelocityShader(b)]

InitBehavior ==
    /\ InitEngineIdle
    /\ InitGridIdle
    /\ InitLifecycleIdle
    /\ \E boundary \in BoundaryConfigs, x \in ParticlePositions, v \in ParticleVelocities,
          age \in ParticleAges :
        /\ behaviorObj = Behavior(boundary, DefaultPositionLogic, DefaultVelocityLogic,
                                  <<>>, <<>>)
        /\ shaders = compose(behaviorObj)
        /\ particle = [pos |-> Texel(x * Hundredth, age), vel |-> Texel(v * VelOne, 0),
                       localVel |-> v * VelOne, delta |-> 0, n |-> 0]
    /\ uniformsMap = <<>>
    /\ declarations = NoDeclarations

\* One compute() of an engine whose two variables run the behaviour's
\* programs: both passes read the pre-step pos and vel of the cell; each
\* variable stores what its own pass writes to gl_FragColor.
BehaviorStep ==
    /\ particle.n < MaxSteps
    /\ ~shaders.position.threw /\ ~shaders.velocity.threw
    /\ \E delta \in StepDeltas :
        LET p == execProgram(shaders.position.program, particle.pos, particle.vel, delta)
            v == execProgram(shaders.velocity.program, particle.pos, particle.vel, delta)
        IN particle' = [pos |-> p.out, vel |-> v.out, localVel |-> p.vel.x,
                        delta |-> delta, n |-> particle.n + 1]
    /\ UNCHANGED <<engineVars, ghostVars, driverVars, gridVars, lifecycleVars>>
    /\ UNCHANGED <<behaviorObj, shaders, uniformsMap, declarations>>

NextBehavior == BehaviorStep

SpecBehavior == InitBehavior /\ [][NextBehavior]_vars

\* --------------------------------- declaration generation on parameter maps
\* The parameter values tried: primitives, arrays of length 0..5, and
\* objects with every set of type flags, every set of numeric x, y, z,
\* numeric r, g, b or not, and a z that is present without being a number.
PrimitiveValues == {JsPrimitive(t) : t \in {"number", "undefined", "null", "boolean", "string"}}
ArrayValues == {JsArray(0, TRUE)} \cup {JsArray(len, all) : len \in 1..5, all \in BOOLEAN}
ObjectValues ==
    {JsObject(fl, num \cup rgb, num \cup rgb \cup other) :
        fl \in SUBSET Flags, num \in SUBSET {"x", "y", "z"},
        rgb \in {{}, {"r", "g", "b"}}, other \in {{}, {"z"}}}
Values == PrimitiveValues \cup ArrayValues \cup ObjectValues

Tags == {NoTag, Tag("string", "vec4"), Tag("string", ""), Tag("number", "")}
TaggedValues == {JsPrimitive("number"), JsPrimitive("string"), JsObject({"isVector3"}, {}, {})}

Entries ==
    {Entry(FALSE, NoTag, v) : v \in Values}
    \cup {Entry(FALSE, t, v) : t \in Tags, v \in TaggedValues}
    \cup {NullEntry}

\* The entries that follow the first one in a map.
MoreEntries ==
    {Entry(FALSE, NoTag, JsPrimitive("number")),
     Entry(FALSE, NoTag, JsPrimitive("string")),
     Entry(FALSE, Tag("string", "vec4"), JsPrimitive("null")),
     NullEntry}

ParamNames == <<"uFirst", "uSecond", "uThird", "uFourth">>

RECURSIVE EntrySeqs(_)
EntrySeqs(k) ==
    IF k = 0 THEN {<<>>}
    ELSE IF k = 1 THEN {<<e>> : e \in Entries}
    ELSE {Append(es, e) : es \in EntrySeqs(k - 1), e \in MoreEntries}

\* Object.entries(uniforms): [name, uniform] pairs in insertion order.
ObjectEntries(es) == [i \in 1..Len(es) |-> <<ParamNames[i], es[i]>>]

UniformMaps == UNION {{ObjectEntries(es) : es \in EntrySeqs(k)} : k \in 0..MaxEntries}

InitUniforms ==
    /\ InitEngineIdle
    /\ InitGridIdle
    /\ InitLifecycleIdle
    /\ behaviorObj = DefaultBehavior
    /\ particle = NoParticle
    /\ shaders = NoShaders
    /\ uniformsMap \in UniformMaps
    /\ declarations = NoDeclarations

\* generateUniformDeclarations(uniforms)
GenerateDeclarations ==
    /\ ~declarations.done
    /\ LET r == generateUniformDeclarations(uniformsMap)
       IN declarations' = [threw |-> r.threw, declarations |-> r.declarations, done |-> TRUE]
    /\ UNCHANGED <<engineVars, ghostVars, driverVars, gridVars, lifecycleVars>>
    /\ UNCHANGED <<behaviorObj, particle, shaders, uniformsMap>>

NextUniforms == GenerateDeclarations

SpecUniforms == InitUniforms /\ [][NextUniforms]_vars

\* ------------------------------------------------- program composition
\* The behaviours composed: each boundary policy, the default position
\* fragment or an overriding one, and parameter maps of up to MaxEntries
\* entries for each pass.
ComposeBoundaries ==
    {BoundaryConfig("none", 0, 0, NoFactor),
     BoundaryConfig("wrap", -100, 100, NoFactor),
     BoundaryConfig("bounce", -100, 100, 80)}
ResetHighPositionLogic == "pos.xyz += vel.xyz * delta; if (pos.y > 5.0) { pos.y = -5.0; }"
PositionLogics == {DefaultPositionLogic, ResetHighPositionLogic}

RECURSIVE MoreSeqs(_)
MoreSeqs(k) ==
    IF k = 0 THEN {<<>>} ELSE {Append(es, e) : es \in MoreSeqs(k - 1), e \in MoreEntries}
SmallMaps == UNION {{ObjectEntries(es) : es \in MoreSeqs(k)} : k \in 0..MaxEntries}

InitCompose ==
    /\ InitEngineIdle
    /\ InitGridIdle
    /\ InitLifecycleIdle
    /\ \E boundary \in ComposeBoundaries, logic \in PositionLogics,
          pu \in SmallMaps, vu \in SmallMaps :
        behaviorObj = Behavior(boundary, logic, DefaultVelocityLogic, pu, vu)
    /\ particle = NoParticle
    /\ shaders = NoShaders
    /\ uniformsMap = <<>>
    /\ declarations = NoDeclarations

\* finalBehavior.getPositionShader() and finalBehavior.getVelocityShader()
Compose ==
    /\ shaders = NoShaders
    /\ shaders' = compose(behaviorObj)
    /\ UNCHANGED <<engineVars, ghostVars, driverVars, gridVars, lifecycleVars>>
    /\ UNCHANGED <<behaviorObj, particle, uniformsMap, declarations>>

NextCompose == Compose

SpecCompose == InitCompose /\ [][NextCompose]_vars

\* ------------------------------------------------------ the grid layout
\* Math.floor(Math.sqrt(n))
floorSqrt(n) == CHOOSE k \in 0..n : k * k <= n /\ (k + 1) * (k + 1) > n

\* Math.floor(a / Math.sqrt(n)) for an integer a >= 0, in exact arithmetic:
\* the largest k with k * sqrt(n) <= a.
floorDivSqrt(a, n) == CHOOSE k \in 0..a : k * k * n <= a * a /\ (k + 1) * (k + 1) * n > a * a

\* The texture coordinate the geometry gives particle i, with
\* size = Math.sqrt(Math.floor(count)):
\*   x = (i % size) / size = i / sqrt(n) - k,  y = Math.floor(i / size) / size = k / sqrt(n)
\* where k = Math.floor(i / size).  The record holds i, k and n.
uvOf(i, n) == [i |-> i, k |-> floorDivSqrt(i, n), n |-> n]

\* The gpgpu useMemo (size of the engine and of the seed data) and the
\* geometry useMemo (uvs), both run by a render with the given count.
layoutOf(n) ==
    [size |-> floorSqrt(n),
     seedCells |-> floorSqrt(n) * floorSqrt(n),
     uvs |-> [j \in 1..n |-> uvOf(j - 1, n)]]

InitGrid ==
    /\ InitEngineIdle
    /\ InitComposerIdle
    /\ InitLifecycleIdle
    /\ count \in 1..MaxCount
    /\ layout = layoutOf(count)

\* The count prop changes; the component renders again.
SetCount ==
    /\ \E n \in 1..MaxCount :
        /\ n # count
        /\ count' = n
        /\ layout' = layoutOf(n)
    /\ UNCHANGED <<engineVars, ghostVars, driverVars, composerVars, lifecycleVars>>

NextGrid == SetCount

SpecGrid == InitGrid /\ [][NextGrid]_vars

\* ------------------------------------------- the component's life cycle
\* Three versions of the component are in the repository: ParticleSystem.tsx,
\* and the hook-based ones of part_000 and part_012.  They differ in the
\* effect whose cleanup disposes the engine and in the guard of useFrame.
Variants == {"ParticleSystem.tsx", "part_000", "part_012"}

\* What changes between two renders: a dependency of the gpgpu useMemo
\* (count, a shader), a dependency of the material or geometry memo only
\* (transparent, config.color), or the update prop.
Changes == {"count", "material", "update"}

EngineStatus(disposed, stepped, displayed) ==
    [disposed |-> disposed, stepped |-> stepped, displayed |-> displayed]

\* The data and the frame deltas of the mounted component.
MountPositionData == Texel(0, 0)
MountVelocityData == Texel(VelOne, 0)
MountDeltas == {1, MAX_DELTA_TIME + 1}

\* Whether the change is among the dependencies of the effect that returns
\* the cleanup: [gpgpu, geometry, material] in ParticleSystem.tsx and
\* part_000; part_012 adds customMaterial, update, finalBehavior, updateUniforms.
effectDepends(variant, change) == change # "update" \/ variant = "part_012"

\* The engine the cleanup of a registered effect disposes (0: none), and
\* whether it cancels the animation-frame callback the effect requested.
\* The effect of part_012 returns the disposing cleanup only when it ran
\* with !(gpgpu && update); otherwise its cleanup only cancels the callback.
cleanupDisposes(variant, effect) ==
    IF variant = "part_012" /\ effect.update THEN 0 ELSE effect.engine

cleanupCancels(variant, effect) == variant = "part_012" /\ effect.update

\* The body of useFrame once gpgpu && update holds.  part_000 and part_012
\* return when a variable is missing and hand over textures only when both
\* are non-null; ParticleSystem.tsx does neither.
runFrame(variant, vs, gc, cells, prev, uniforms, elapsed, delta, shown) ==
    IF variant # "ParticleSystem.tsx"
       /\ (GPGPU_getVariable(vs, "positionTex") = 0 \/ GPGPU_getVariable(vs, "velocityTex") = 0)
    THEN [ran |-> FALSE, cells |-> cells, prev |-> prev, gc |-> gc,
          elapsed |-> elapsed, display |-> shown]
    ELSE LET dt == clampDelta(delta)
             t == uploadedTime(elapsed, dt)
             c1 == GPGPU_setUniform(vs, gc, cells, "positionTex", "time", t)
             c2 == GPGPU_setUniform(vs, gc, c1, "velocityTex", "time", t)
             c3 == GPGPU_setUniform(vs, gc, c2, "positionTex", "delta", dt)
             c4 == GPGPU_setUniform(vs, gc, c3, "velocityTex", "delta", dt)
             up == uploadChanged(vs, gc, c4, prev, uniforms)
             g == GPGPU_compute(gc, up.cells)
             positionTex == GPGPU_getCurrentRenderTarget(vs, g, "positionTex")
             velocityTex == GPGPU_getCurrentRenderTarget(vs, g, "velocityTex")
         IN [ran |-> TRUE, cells |-> up.cells, prev |-> up.prev, gc |-> g,
             elapsed |-> elapsed + dt,
             display |-> IF variant = "ParticleSystem.tsx"
                            \/ (positionTex.kind = "texture" /\ velocityTex.kind = "texture")
                         THEN [positionTex |-> positionTex, velocityTex |-> velocityTex]
                         ELSE shown]

\* The component has rendered for the first time: its engine is built, its
\* effects have not run yet.
InitLifecycle ==
    /\ LET e == BuildEngine(MountPositionData, MountVelocityData)
       IN /\ variables = e.variables
          /\ gpuCompute = e.gc
          /\ written = [n \in VarNames |-> CurrentData(e.variables, e.gc, n)]
    /\ uniformCells = [c \in Cells |-> IF c = DampingCell THEN 50 ELSE 0]
    /\ behavior = [damping |-> 50]
    /\ seed = [n \in VarNames |->
                 IF n = "positionTex" THEN MountPositionData ELSE MountVelocityData]
    /\ call = Called("init", "ghostTex", ZeroTexel, FALSE, RetVoid)
    /\ steps = 0
    /\ disposals = 0
    /\ timeRef = 0
    /\ prevUniformsRef = [position |-> NoUniforms, velocity |-> [damping |-> Undefined]]
    /\ update \in BOOLEAN
    /\ display = [positionTex |-> RetNull, velocityTex |-> RetNull]
    /\ frame = [n |-> 0, delta |-> 0, sum |-> 0]
    /\ \E variant \in Variants :
        component = [NoComponent EXCEPT !.variant = variant, !.mounted = TRUE,
                                        !.engine = 1, !.pending = TRUE]
    /\ engines = <<EngineStatus(FALSE, FALSE, FALSE)>>
    /\ InitComposerIdle
    /\ InitGridIdle

\* A render with a changed prop.  A changed dependency of the gpgpu useMemo
\* builds a new engine, which the frame callback uses from now on.
Render ==
    /\ component.mounted /\ ~component.pending
    /\ component.renders < MaxDisposals
    /\ \E change \in Changes :
        /\ IF change = "count"
           THEN LET e == BuildEngine(MountPositionData, MountVelocityData)
                IN /\ variables' = e.variables
                   /\ gpuCompute' = e.gc
                   /\ written' = [n \in VarNames |-> CurrentData(e.variables, e.gc, n)]
                   /\ uniformCells' = [c \in Cells |->
                                          IF c = DampingCell THEN behavior.damping ELSE 0]
                   /\ engines' = Append(engines, EngineStatus(FALSE, FALSE, FALSE))
           ELSE UNCHANGED <<variables, gpuCompute, written, uniformCells, engines>>
        /\ update' = IF change = "update" THEN ~update ELSE update
        /\ component' = [component EXCEPT
                            !.engine = IF change = "count" THEN Len(engines) + 1 ELSE @,
                            !.pending = effectDepends(component.variant, change),
                            !.renders = @ + 1]
    /\ call' = Called("render", "ghostTex", ZeroTexel, FALSE, RetVoid)
    /\ UNCHANGED <<steps, seed, disposals, timeRef, prevUniformsRef, behavior, display, frame>>
    /\ UNCHANGED <<composerVars, gridVars>>

\* The component is unmounted: no frame callback runs any more.
Unmount ==
    /\ component.mounted /\ ~component.pending
    /\ component' = [component EXCEPT !.mounted = FALSE, !.pending = TRUE]
    /\ call' = Called("unmount", "ghostTex", ZeroTexel, FALSE, RetVoid)
    /\ UNCHANGED <<variables, gpuCompute, uniformCells, steps, seed, written, disposals>>
    /\ UNCHANGED <<driverVars, composerVars, gridVars, engines>>

\* The effects of the last render (or the unmount) run: the cleanup the
\* previous effect returned, then, if still mounted, the effect itself.
FlushEffects ==
    /\ component.pending
    /\ LET variant == component.variant
           disposed == cleanupDisposes(variant, component.effect)
           r == GPGPU_dispose(variables, gpuCompute)
           raf == IF cleanupCancels(variant, component.effect) THEN 0 ELSE component.raf
       IN /\ engines' = IF disposed = 0 THEN engines
                        ELSE [engines EXCEPT ![disposed].disposed = TRUE]
          /\ disposals' = IF disposed = 0 THEN disposals ELSE disposals + 1
          /\ variables' = IF disposed # 0 /\ disposed = component.engine
                          THEN r.variables ELSE variables
          /\ gpuCompute' = IF disposed # 0 /\ disposed = component.engine
                           THEN r.gc ELSE gpuCompute
          /\ component' =
               IF component.mounted
               THEN [component EXCEPT
                       !.pending = FALSE,
                       !.effect = [engine |-> component.engine, update |-> update],
                       !.raf = IF variant = "part_012" /\ update THEN component.engine ELSE raf,
                       !.initialized = IF variant = "part_012" THEN FALSE ELSE @]
               ELSE [component EXCEPT !.pending = FALSE, !.effect = NoEffect, !.raf = raf]
    /\ call' = Called("effects", "ghostTex", ZeroTexel, FALSE, RetVoid)
    /\ UNCHANGED <<uniformCells, steps, seed, written>>
    /\ UNCHANGED <<driverVars, composerVars, gridVars>>

\* The callback the effect of part_012 passed to requestAnimationFrame, for
\* the engine that is still the active one (the callback of a replaced engine
\* touches that engine only).
InitCallback ==
    /\ component.raf # 0 /\ component.raf = component.engine
    /\ LET ok == GPGPU_getVariable(variables, "positionTex") # 0
                 /\ GPGPU_getVariable(variables, "velocityTex") # 0
           c1 == GPGPU_setUniform(variables, gpuCompute, uniformCells, "positionTex", "time", 0)
           c2 == GPGPU_setUniform(variables, gpuCompute, c1, "velocityTex", "time", 0)
           c3 == GPGPU_setUniform(variables, gpuCompute, c2, "positionTex", "delta", 0)
           c4 == GPGPU_setUniform(variables, gpuCompute, c3, "velocityTex", "delta", 0)
           up == uploadChanged(variables, gpuCompute, c4, prevUniformsRef, behavior)
           positionTex == GPGPU_getCurrentRenderTarget(variables, gpuCompute, "positionTex")
           velocityTex == GPGPU_getCurrentRenderTarget(variables, gpuCompute, "velocityTex")
           both == positionTex.kind = "texture" /\ velocityTex.kind = "texture"
       IN /\ uniformCells' = IF ok THEN up.cells ELSE uniformCells
          /\ prevUniformsRef' = IF ok THEN up.prev ELSE prevUniformsRef
          /\ display' = IF ok /\ both
                        THEN [positionTex |-> positionTex, velocityTex |-> velocityTex]
                        ELSE display
          /\ component' = [component EXCEPT !.raf = 0,
                                            !.initialized = IF ok THEN TRUE ELSE @]
          /\ engines' = IF ok /\ engines[component.engine].disposed
                        THEN [engines EXCEPT ![component.engine].displayed = TRUE]
                        ELSE engines
    /\ call' = Called("animationFrame", "ghostTex", ZeroTexel, FALSE, RetVoid)
    /\ UNCHANGED <<variables, gpuCompute, steps, seed, written, disposals>>
    /\ UNCHANGED <<timeRef, behavior, update, frame>>
    /\ UNCHANGED <<composerVars, gridVars>>

\* useFrame((state, delta) => ...) of the mounted component, with
\* gpgpu && update.
ComponentFrame ==
    /\ component.mounted /\ update
    /\ frame.n < MaxSteps
    /\ \E delta \in MountDeltas :
        LET r == runFrame(component.variant, variables, gpuCompute, uniformCells,
                          prevUniformsRef, behavior, timeRef, delta, display)
            onDisposed == r.ran /\ engines[component.engine].disposed
        IN /\ timeRef' = r.elapsed
           /\ uniformCells' = r.cells
           /\ prevUniformsRef' = r.prev
           /\ gpuCompute' = r.gc
           /\ display' = r.display
           /\ written' = [n \in VarNames |-> CurrentData(variables, r.gc, n)]
           /\ steps' = IF r.ran /\ Len(gpuCompute.variables) # 0 THEN steps + 1 ELSE steps
           /\ frame' = [n |-> frame.n + 1, delta |-> delta,
                        sum |-> frame.sum + (IF r.ran THEN clampDelta(delta) ELSE 0)]
           /\ engines' = IF onDisposed
                         THEN [engines EXCEPT ![component.engine].stepped = TRUE,
                                              ![component.engine].displayed = TRUE]
                         ELSE engines
           /\ component' = [component EXCEPT !.initialized =
                               IF component.variant = "part_012" /\ r.ran
                                  /\ r.display.positionTex.kind = "texture"
                               THEN TRUE ELSE @]
    /\ call' = Called("frame", "ghostTex", ZeroTexel, FALSE, RetVoid)
    /\ UNCHANGED <<variables, seed, disposals, behavior, update>>
    /\ UNCHANGED <<composerVars, gridVars>>

NextLifecycle ==
    \/ Render
    \/ Unmount
    \/ FlushEffects
    \/ InitCallback
    \/ ComponentFrame

SpecLifecycle == InitLifecycle /\ [][NextLifecycle]_vars

\* ============================================================ claims
Registered(n) == variables[n] # 0
Stepped == call'.op = "compute" /\ steps' = steps + 1
OtherData(n) ==
    gpuCompute.variables[variables[n]].renderTargets[NextIndex(gpuCompute.currentTextureIndex) + 1]
MaterialOf(n) == gpuCompute.variables[variables[n]].material

\* C1 -- Snapshot isolation: in every compute() step the new state of every
\* registered variable is its program applied to the current buffers of
\* positionTex and velocityTex as they were when the step began; no program
\* sees a value written earlier in the same step.
C1_SnapshotIsolation ==
    [][Stepped =>
        \A n \in VarNames : Registered(n) =>
            CurrentData(variables, gpuCompute', n) =
                runProgram(MaterialOf(n),
                           CurrentData(variables, gpuCompute, "positionTex"),
                           CurrentData(variables, gpuCompute, "velocityTex"),
                           uniformCells)]_vars

\* The scenario pos += vel * delta, vel *= 0.5 from pos = 0, vel = 1 with
\* delta = 1 second: after one step pos = 1 and vel = 0.5.
C1_Witness ==
    /\ call.op = "compute" /\ steps = 1
    /\ Registered("positionTex") /\ Registered("velocityTex")
    /\ MaterialOf("positionTex").pass = "position"
    /\ MaterialOf("velocityTex").pass = "velocity"
    /\ uniformCells[DeltaCell] = TicksPerSecond /\ uniformCells[DampingCell] = 50
    /\ OtherData("positionTex").x = 0 /\ OtherData("velocityTex").x = VelOne
    /\ CurrentData(variables, gpuCompute, "positionTex").x = VelOne * TicksPerSecond
    /\ CurrentData(variables, gpuCompute, "velocityTex").x = VelOne \div 2

\* C2 -- Reset visibility: right after resetVariable(name, newData) on an
\* initialised engine, whatever the parity of the ping-pong index,
\* getCurrentRenderTarget(name) holds newData.
C2_ResetVisible ==
    (call.op = "resetVariable" /\ call.name \in VarNames /\ Registered(call.name)
        /\ gpuCompute.initialized)
    => LET r == GPGPU_getCurrentRenderTarget(variables, gpuCompute, call.name)
       IN r.kind = "texture" /\ r.data = call.data

\* C3 -- Init idempotence: after init() and before any compute(), the
\* current render target of every registered variable is non-null and holds
\* the seed data given to addVariable.
C3_InitIdempotent ==
    (gpuCompute.initialized /\ steps = 0) =>
        \A n \in VarNames : Registered(n) =>
            LET r == GPGPU_getCurrentRenderTarget(variables, gpuCompute, n)
            IN r.kind = "texture" /\ r.data = seed[n]

C3_Witness ==
    /\ gpuCompute.initialized /\ steps = 0
    /\ call.op = "getCurrentRenderTarget" /\ call.name = "velocityTex"
    /\ call.ret.kind = "texture" /\ call.ret.data = Texel(VelOne, 1)
    /\ seed["velocityTex"] = Texel(VelOne, 1)

\* C4 -- No tearing across steps: what every variable reads in a step is
\* exactly what the previous step (or init, for the first step) left as the
\* state of all variables; the new state is the program applied to that.
C4_NoTearing ==
    [][Stepped =>
        \A n \in VarNames : Registered(n) =>
            CurrentData(variables, gpuCompute', n) =
                runProgram(MaterialOf(n), written["positionTex"],
                           written["velocityTex"], uniformCells)]_vars

\* After the second step the velocity is two dampings away from the seed:
\* seed, step 1 and step 2 are three different states.
C4_Witness ==
    /\ call.op = "compute" /\ steps = 2
    /\ Registered("positionTex") /\ Registered("velocityTex")
    /\ MaterialOf("velocityTex").pass = "velocity"
    /\ seed["velocityTex"].x = VelOne
    /\ OtherData("velocityTex").x = VelOne \div 2
    /\ written["velocityTex"].x = VelOne \div 4

\* C5 -- Strict alternation: every variable has two buffers; a step writes
\* the buffer that is not current, never the one it reads, leaves the read
\* buffer intact, and makes the written buffer current, so the current
\* render target alternates between the two buffers.
C5_StrictAlternation ==
    [][Stepped =>
        /\ gpuCompute'.lastRead = gpuCompute.currentTextureIndex
        /\ gpuCompute'.lastWrite = NextIndex(gpuCompute.currentTextureIndex)
        /\ gpuCompute'.lastWrite # gpuCompute'.lastRead
        /\ gpuCompute'.currentTextureIndex = gpuCompute'.lastWrite
        /\ \A i \in 1..Len(gpuCompute.variables) :
            /\ Len(gpuCompute'.variables[i].renderTargets) = 2
            /\ gpuCompute'.variables[i].renderTargets[gpuCompute.currentTextureIndex + 1]
                 = gpuCompute.variables[i].renderTargets[gpuCompute.currentTextureIndex + 1]
        /\ \A n \in VarNames : Registered(n) =>
            LET before == GPGPU_getCurrentRenderTarget(variables, gpuCompute, n)
                after == GPGPU_getCurrentRenderTarget(variables, gpuCompute', n)
            IN /\ before.kind = "texture" /\ after.kind = "texture"
               /\ after.buf = NextIndex(before.buf)]_vars

C5_Witness ==
    /\ call.op = "compute" /\ steps = 2
    /\ gpuCompute.lastRead = 1 /\ gpuCompute.lastWrite = 0
    /\ gpuCompute.currentTextureIndex = 0
    /\ Registered("positionTex") /\ Registered("velocityTex")

\* C6 -- Duplicate variable rejection: addVariable with a name that is
\* already registered fails, and the registry and the variable registered
\* first (seed, program, buffers) are left as they were.
C6_DuplicateRejected ==
    [][(call'.op = "addVariable" /\ Registered(call'.name)) =>
        /\ call'.threw
        /\ GPGPU_getVariable(variables', call'.name) = GPGPU_getVariable(variables, call'.name)
        /\ gpuCompute'.variables = gpuCompute.variables]_vars

C6_Witness ==
    /\ call.op = "addVariable" /\ call.threw
    /\ Registered(call.name)
    /\ call.data # seed[call.name]
    /\ gpuCompute.variables[variables[call.name]].initialValueTexture = seed[call.name]

\* C7 -- Delta clamp: in every frame the delta parameter of the position and
\* of the velocity program is min(raw delta, 1/30 s), and the elapsed time
\* grows by exactly that clamped value, so it is the sum of the clamped deltas.
C7_DeltaClamp ==
    [][frame'.n = frame.n + 1 =>
        LET dt == IF frame'.delta < MAX_DELTA_TIME THEN frame'.delta ELSE MAX_DELTA_TIME
        IN /\ \A n \in VarNames :
                LET u == GPGPU_getUniform(variables', gpuCompute', n, "delta")
                IN u.kind = "uniform" => uniformCells'[u.cell] = dt
           /\ timeRef' = timeRef + dt
           /\ timeRef' = frame'.sum]_vars

\* A frame with a raw delta of 5 seconds, after a short one.
C7_Witness ==
    /\ call.op = "frame" /\ frame.n = 2 /\ frame.delta = 5 * TicksPerSecond
    /\ timeRef = 1 + MAX_DELTA_TIME
    /\ GPGPU_getUniform(variables, gpuCompute, "positionTex", "delta").kind = "uniform"
    /\ GPGPU_getUniform(variables, gpuCompute, "velocityTex", "delta").kind = "uniform"
    /\ uniformCells[DeltaCell] = MAX_DELTA_TIME

\* C8 as stated -- Graceful accessor misuse: with an unregistered name, with a
\* registered variable before init(), or after dispose(), getCurrentRenderTarget
\* and getUniform return null and setUniform is a no-op; the call does not
\* throw and changes no engine state.
Accessor(op) == op \in {"getUniform", "setUniform", "getCurrentRenderTarget"}

C8_Original ==
    [][(Accessor(call'.op) /\ (~Registered(call'.name) \/ ~gpuCompute.initialized)) =>
        /\ ~call'.threw
        /\ <<variables, gpuCompute, uniformCells>>' = <<variables, gpuCompute, uniformCells>>
        /\ call'.op # "setUniform" => call'.ret.kind = "null"]_vars

\* C8 -- Graceful accessor misuse, as the code has it: no accessor call throws
\* or changes the registry, the buffers or the current index.  With an
\* unregistered name or after dispose(), getCurrentRenderTarget and getUniform
\* return null and setUniform changes no parameter.  For a registered variable
\* before init(), getCurrentRenderTarget returns null, while getUniform returns
\* the parameter (not null) and setUniform stores the value in it.
C8_AccessorMisuse ==
    [][Accessor(call'.op) =>
        /\ ~call'.threw
        /\ variables' = variables /\ gpuCompute' = gpuCompute
        /\ call'.op # "setUniform" => uniformCells' = uniformCells
        /\ ~Registered(call'.name) =>
              /\ uniformCells' = uniformCells
              /\ call'.op # "setUniform" => call'.ret.kind = "null"
        /\ (call'.op = "getCurrentRenderTarget" /\ ~gpuCompute.initialized) =>
              call'.ret.kind = "null"
        /\ (Registered(call'.name) /\ call'.prop \in Props
              /\ MaterialOf(call'.name).uniforms[call'.prop] # 0) =>
              /\ call'.op = "getUniform" =>
                    /\ call'.ret.kind = "uniform"
                    /\ call'.ret.cell = MaterialOf(call'.name).uniforms[call'.prop]
              /\ call'.op = "setUniform" =>
                    /\ uniformCells'[MaterialOf(call'.name).uniforms[call'.prop]] = call'.value
                    /\ \A c \in Cells : c # MaterialOf(call'.name).uniforms[call'.prop]
                          => uniformCells'[c] = uniformCells[c]]_vars

\* setUniform on a registered variable before init() has stored the value.
C8_Witness ==
    /\ call.op = "setUniform" /\ call.prop = "delta" /\ call.value = TicksPerSecond
    /\ Registered(call.name)
    /\ ~gpuCompute.initialized /\ ~gpuCompute.disposed
    /\ uniformCells[DeltaCell] = TicksPerSecond

C10_DisposeIdempotent ==
    [][call'.op = "dispose" =>
        /\ ~call'.threw
        /\ variables' = NoVariables
        /\ gpuCompute'.variables = <<>>
        /\ gpuCompute'.released =
              gpuCompute.released + 2 * Len(gpuCompute.variables)
        /\ gpuCompute.disposed =>
              /\ gpuCompute'.released = gpuCompute.released
              /\ <<variables, gpuCompute, uniformCells>>' = <<variables, gpuCompute, uniformCells>>]_vars

C10_Witness ==
    /\ call.op = "dispose" /\ disposals = 2
    /\ gpuCompute.released = 4
    /\ variables = NoVariables

\* The position the default position fragment integrates to in the step
\* being taken, and the configured factor (0.8 when none is configured).
Sign(v) == IF v > 0 THEN 1 ELSE IF v < 0 THEN -1 ELSE 0
BehaviorStepped == particle'.n = particle.n + 1
Integrated == particle.pos.x + particle.vel.x * particle'.delta
ConfiguredFactor ==
    IF behaviorObj.boundary.bounceFactor = NoFactor THEN 80
    ELSE behaviorObj.boundary.bounceFactor

\* C11 -- Bounce correctness: under the bounce policy with bounds [min, max]
\* and bounceFactor f, the position pass sets a position component that
\* exceeds max after integration to exactly max and multiplies its velocity
\* component by -f, sets one below min to exactly min with the same scaling,
\* and leaves an in-range component and its velocity untouched.
C11_BounceCorrect ==
    [][(BehaviorStepped /\ behaviorObj.boundary.type = "bounce") =>
        LET min == behaviorObj.boundary.min * Hundredth
            max == behaviorObj.boundary.max * Hundredth
        IN /\ Integrated > max =>
                /\ particle'.pos.x = max
                /\ particle'.localVel = -(ConfiguredFactor * (particle.vel.x \div 100))
           /\ Integrated < min =>
                /\ particle'.pos.x = min
                /\ particle'.localVel = -(ConfiguredFactor * (particle.vel.x \div 100))
           /\ (Integrated >= min /\ Integrated <= max) =>
                /\ particle'.pos.x = Integrated
                /\ particle'.localVel = particle.vel.x]_vars

\* C12 -- Bounce reverses the stored velocity: under the bounce policy, when
\* a position component inside the box crosses a bound in a step, the
\* velocity variable the next step reads has that component reversed.
C12_StoredVelocityReversed ==
    [][(BehaviorStepped /\ behaviorObj.boundary.type = "bounce"
          /\ particle.pos.x >= behaviorObj.boundary.min * Hundredth
          /\ particle.pos.x <= behaviorObj.boundary.max * Hundredth
          /\ (Integrated > behaviorObj.boundary.max * Hundredth
                \/ Integrated < behaviorObj.boundary.min * Hundredth))
        => Sign(particle'.vel.x) # Sign(particle.vel.x)]_vars

\* C13 -- Wrap correctness: under the wrap policy with bounds [min, max], a
\* position component that exceeds max after integration is set to min, one
\* below min is set to max, and an in-range component is unchanged.
C13_WrapCorrect ==
    [][(BehaviorStepped /\ behaviorObj.boundary.type = "wrap") =>
        LET min == behaviorObj.boundary.min * Hundredth
            max == behaviorObj.boundary.max * Hundredth
        IN /\ Integrated > max => particle'.pos.x = min
           /\ Integrated < min => particle'.pos.x = max
           /\ (Integrated >= min /\ Integrated <= max) =>
                particle'.pos.x = Integrated]_vars

\* The shape declared for the i-th entry of the map: the type of the
\* declaration carrying its name, NoType when there is none.
DeclaredType(i) ==
    LET ds == {j \in 1..Len(declarations.declarations) :
                  declarations.declarations[j].name = uniformsMap[i][1]}
    IN IF ds = {} THEN NoType ELSE declarations.declarations[CHOOSE j \in ds : TRUE].text

HasTag(u) == u.type.t = "string" /\ u.type.text # ""
NumericFields(v, fs) == v.t = "object" /\ fs \subseteq v.numeric
NumericArray(v) == v.t = "array" /\ v.allNumbers /\ v.len \in {2, 3, 4}

\* The ordered rules as the specification lists them: each flag together
\* with its structural pattern, arrays last.
ListedType(u) ==
    LET v == u.value
    IN IF HasTag(u) THEN u.type.text
       ELSE IF v.t = "number" THEN "float"
       ELSE IF "isTexture" \in v.flags THEN "sampler2D"
       ELSE IF "isVector3" \in v.flags \/ NumericFields(v, {"x", "y", "z"}) THEN "vec3"
       ELSE IF "isVector2" \in v.flags
               \/ (NumericFields(v, {"x", "y"}) /\ "z" \notin v.present) THEN "vec2"
       ELSE IF "isColor" \in v.flags \/ NumericFields(v, {"r", "g", "b"}) THEN "vec3"
       ELSE IF NumericArray(v) THEN vecN(v.len)
       ELSE NoType

\* C14 as stated -- Uniform type inference equals the ordered first-match-wins
\* algorithm of the specification (number; texture flag; 3-vector flag or
\* numeric x,y,z; 2-vector flag or numeric x,y without z; colour flag or
\* numeric r,g,b; numeric array of length 2..4; else none), an explicit
\* string tag overriding, also for values that satisfy several rules.
C14_Original ==
    (declarations.done /\ ~declarations.threw) =>
        \A i \in 1..Len(uniformsMap) : DeclaredType(i) = ListedType(uniformsMap[i][2])

\* The rules in the order the code applies them: a value carrying a type
\* flag is typed by its flag alone, whatever fields it has; only a value
\* without any flag is typed by its structure.
FlagType(v) ==
    CASE "isTexture" \in v.flags -> "sampler2D"
      [] "isTexture" \notin v.flags /\ "isVector3" \in v.flags -> "vec3"
      [] v.flags \cap {"isTexture", "isVector3"} = {} /\ "isVector2" \in v.flags -> "vec2"
      [] v.flags = {"isColor"} -> "vec3"
      [] OTHER -> NoType

StructureType(v) ==
    CASE NumericArray(v) -> vecN(v.len)
      [] NumericFields(v, {"x", "y", "z"}) -> "vec3"
      [] NumericFields(v, {"x", "y"}) /\ "z" \notin v.present -> "vec2"
      [] NumericFields(v, {"r", "g", "b"})
           /\ ~(NumericFields(v, {"x", "y"}) /\ "z" \notin v.present)
           /\ ~NumericFields(v, {"x", "y", "z"}) -> "vec3"
      [] OTHER -> NoType

\* C14 -- Uniform type inference, flags first: whenever generation returns,
\* the shape declared for a parameter is its non-empty string type tag if it
\* has one; else scalar for a number; else, for a value with a type flag, the
\* shape of the first of the texture, 3-vector, 2-vector and colour flags it
\* carries, whatever its fields; else, for a value without flags, the shape
\* of a numeric array of length 2..4, of numeric x,y,z, of numeric x,y
\* without z, or of numeric r,g,b, in that order; else none.
C14_TypeInference ==
    (declarations.done /\ ~declarations.threw) =>
        \A i \in 1..Len(uniformsMap) :
            LET u == uniformsMap[i][2]
            IN DeclaredType(i) =
                 IF HasTag(u) THEN u.type.text
                 ELSE IF u.value.t = "number" THEN "float"
                 ELSE IF u.value.flags # {} THEN FlagType(u.value)
                 ELSE StructureType(u.value)

\* A value with the 2-vector flag and numeric x, y, z has been declared vec2.
C14_Witness ==
    /\ declarations.done /\ ~declarations.threw
    /\ Len(uniformsMap) >= 1
    /\ ~HasTag(uniformsMap[1][2])
    /\ uniformsMap[1][2].value.flags = {"isVector2"}
    /\ {"x", "y", "z"} \subseteq uniformsMap[1][2].value.numeric
    /\ DeclaredType(1) = "vec2"

RECURSIVE InferableDeclarations(_)
InferableDeclarations(us) ==
    IF us = <<>> THEN <<>>
    ELSE LET u == us[1][2]
             type == IF u.isNull THEN NoType
                     ELSE IF HasTag(u) THEN u.type.text
                     ELSE IF u.value.t = "number" THEN "float"
                     ELSE IF u.value.flags # {} THEN FlagType(u.value)
                     ELSE StructureType(u.value)
         IN (IF type = NoType THEN <<>> ELSE <<DeclStmt(type, us[1][1])>>)
            \o InferableDeclarations(Tail(us))

\* C15 -- Unrecognised parameters are omitted without error: generation
\* throws nothing, emits no declaration for an entry without an inferable
\* shape (a null entry included) and emits the declarations of all other
\* entries, one per inferable entry, in map order.
C15_OmittedWithoutError ==
    declarations.done =>
        /\ ~declarations.threw
        /\ declarations.declarations = InferableDeclarations(uniformsMap)

\* C16 -- Change detection is only an optimisation: after every frame the
\* driver runs, the value the velocity program holds for the behaviour's
\* parameter is the value the behaviour supplies now, as if every parameter
\* were uploaded each frame; across frames, parameter changes, reset() and
\* engine re-creations that keep the driver's cache.
C16_ChangeDetection ==
    call.op = "frame" =>
        LET u == GPGPU_getUniform(variables, gpuCompute, "velocityTex", "damping")
        IN u.kind = "uniform" /\ uniformCells[u.cell] = behavior.damping

\* C17 as stated -- Time upload: in every frame the time uploaded to both
\* programs is the new accumulated elapsed time (after adding this frame's
\* clamped delta), and both programs get the same time and the same delta.
C17_Original ==
    [][frame'.n = frame.n + 1 =>
        \A n \in VarNames :
            LET t == GPGPU_getUniform(variables', gpuCompute', n, "time")
                d == GPGPU_getUniform(variables', gpuCompute', n, "delta")
            IN /\ t.kind = "uniform" /\ d.kind = "uniform"
               /\ uniformCells'[t.cell] = timeRef'
               /\ uniformCells'[d.cell] = timeRef' - timeRef]_vars

\* C17 -- Time upload: in every frame the time uploaded to both programs is
\* the elapsed time accumulated before this frame, that is the new elapsed
\* time minus this frame's clamped delta; both programs get that same time
\* and the same clamped delta.
C17_TimeUpload ==
    [][frame'.n = frame.n + 1 =>
        \A n \in VarNames :
            LET t == GPGPU_getUniform(variables', gpuCompute', n, "time")
                d == GPGPU_getUniform(variables', gpuCompute', n, "delta")
            IN /\ t.kind = "uniform" /\ d.kind = "uniform"
               /\ uniformCells'[t.cell] = timeRef
               /\ uniformCells'[t.cell] + uniformCells'[d.cell] = timeRef'
               /\ uniformCells'[d.cell] = Min(frame'.delta, MAX_DELTA_TIME)]_vars

\* The second frame, after a first one of one tick: time 1 is uploaded while
\* the elapsed time becomes 1 + 1/30 s.
C17_Witness ==
    /\ call.op = "frame" /\ frame.n = 2
    /\ uniformCells[TimeCell] = 1
    /\ uniformCells[DeltaCell] = MAX_DELTA_TIME
    /\ timeRef = 1 + MAX_DELTA_TIME
    /\ GPGPU_getUniform(variables, gpuCompute, "positionTex", "time").kind = "uniform"
    /\ GPGPU_getUniform(variables, gpuCompute, "velocityTex", "time").kind = "uniform"

\* The parts a composed program must have, in order: the tail of the program
\* after its time and delta declarations and its n parameter declarations.
Body(program, n) == SubSeq(program, n + 3, Len(program))
BoundaryStatements(type) == IF type = "none" THEN 0 ELSE 2
Ops(program) == {program[i].op : i \in 1..Len(program)}

\* C18 -- Composed program structure: the position program is, in this
\* order, the time and delta declarations, one declaration per inferable
\* position parameter, the reads of pos and vel, the position fragment
\* verbatim, the boundary block (nothing for policy none), the age update
\* and the write of pos; the velocity program has the same header with the
\* velocity parameters, the reads, the velocity fragment and the write of
\* vel, and neither a boundary block nor an age update.
C18_ProgramStructure ==
    /\ (shaders # NoShaders /\ ~shaders.position.threw) =>
        LET p == shaders.position.program
            ds == InferableDeclarations(behaviorObj.positionUniforms)
            n == Len(ds)
            m == BoundaryStatements(behaviorObj.boundary.type)
            body == Body(p, n)
        IN /\ Len(p) = n + m + 7
           /\ p[1] = DeclStmt("float", "time") /\ p[2] = DeclStmt("float", "delta")
           /\ SubSeq(p, 3, n + 2) = ds
           /\ {body[1], body[2]} = {ReadStmt("pos", "positionTex"), ReadStmt("vel", "velocityTex")}
           /\ body[3] = FragmentStmt(behaviorObj.positionLogic)
           /\ \A i \in 1..m : /\ body[3 + i].op = "if"
                              /\ body[3 + i].name = behaviorObj.boundary.type
           /\ body[m + 4] = AgeStmt
           /\ body[m + 5] = WriteStmt("pos")
    /\ (shaders # NoShaders /\ ~shaders.velocity.threw) =>
        LET p == shaders.velocity.program
            ds == InferableDeclarations(behaviorObj.velocityUniforms)
            n == Len(ds)
            body == Body(p, n)
        IN /\ Len(p) = n + 6
           /\ p[1] = DeclStmt("float", "time") /\ p[2] = DeclStmt("float", "delta")
           /\ SubSeq(p, 3, n + 2) = ds
           /\ {body[1], body[2]} = {ReadStmt("pos", "positionTex"), ReadStmt("vel", "velocityTex")}
           /\ body[3] = FragmentStmt(behaviorObj.velocityLogic)
           /\ body[4] = WriteStmt("vel")
           /\ Ops(p) \cap {"if", "age"} = {}

\* A bounce behaviour with an overriding position fragment, one inferable
\* and one uninferable position parameter and a tagged velocity parameter
\* has been composed.
C18_Witness ==
    /\ shaders # NoShaders /\ ~shaders.position.threw /\ ~shaders.velocity.threw
    /\ behaviorObj.boundary.type = "bounce"
    /\ behaviorObj.positionLogic = ResetHighPositionLogic
    /\ Len(behaviorObj.positionUniforms) = 2
    /\ Len(InferableDeclarations(behaviorObj.positionUniforms)) = 1
    /\ Len(shaders.position.program) = 10
    /\ Len(shaders.velocity.program) = 7
    /\ shaders.velocity.program[3] = DeclStmt("vec4", "uFirst")

\* C19 -- Grid capacity: for every count N >= 1 the grid side of the engine
\* is ceil(sqrt(N)), so the grid (and the seed data) has at least N cells,
\* one for every particle index 0..N-1.
C19_GridCapacity ==
    count >= 1 =>
        /\ layout.size * layout.size >= count
        /\ (layout.size - 1) * (layout.size - 1) < count
        /\ layout.seedCells >= count

\* Exact comparisons of a texture coordinate with a fraction a / W, and the
\* grid cell of a W x W texture a coordinate falls into.
UvXIs(uv, a, W) == uv.i * uv.i * W * W = uv.n * (uv.k * W + a) * (uv.k * W + a)
UvYIs(uv, a, W) == uv.k * uv.k * W * W = a * a * uv.n
UvInside(uv) == uv.k * uv.k < uv.n
CellOf(uv, W) ==
    <<floorDivSqrt(uv.i * W, uv.n) - uv.k * W, floorDivSqrt(uv.k * W, uv.n)>>

\* C20 -- Index-to-grid mapping: for every count N and index i < N the
\* texture coordinate of particle i is ((i mod W) / W, floor(i / W) / W) with
\* W the grid side of the engine; distinct particles get distinct cells, all
\* inside the grid.
C20_IndexMapping ==
    count >= 1 =>
        LET W == layout.size
        IN /\ \A j \in 1..count :
                /\ UvXIs(layout.uvs[j], (j - 1) % W, W)
                /\ UvYIs(layout.uvs[j], (j - 1) \div W, W)
                /\ UvInside(layout.uvs[j])
           /\ \A j1, j2 \in 1..count :
                j1 # j2 => CellOf(layout.uvs[j1], W) # CellOf(layout.uvs[j2], W)

\* The boundary statements of the composed position program.
BoundaryBlock ==
    {shaders.position.program[i] : i \in {j \in 1..Len(shaders.position.program) :
                                             shaders.position.program[j].op = "if"}}

\* C21 -- Bounce factor default: for every bounce boundary configuration the
\* factor the generated program scales by is the configured bounceFactor
\* whenever one is given, 0 included, and 0.8 only when none is given.
C21_BounceFactorDefault ==
    (behaviorObj.boundary.type = "bounce" /\ ~shaders.position.threw) =>
        /\ BoundaryBlock # {}
        /\ \A st \in BoundaryBlock : st.c * 10 = ConfiguredFactor

\* C22 -- Boundary literal formatting is cosmetic: the literals of the
\* generated boundary block denote exactly the configured min and max (and
\* the factor in use), so the bound the program enforces is the configured
\* bound.
C22_LiteralsExact ==
    (behaviorObj.boundary.type \in {"wrap", "bounce"} /\ ~shaders.position.threw) =>
        /\ BoundaryBlock # {}
        /\ \A st \in BoundaryBlock :
            /\ st.text = ">" => st.a * 10 = behaviorObj.boundary.max
            /\ st.text = "<" => st.a * 10 = behaviorObj.boundary.min
            /\ st.name = "wrap" =>
                  st.b * 10 = (IF st.text = ">" THEN behaviorObj.boundary.min
                               ELSE behaviorObj.boundary.max)
            /\ st.name = "bounce" =>
                  /\ st.b = st.a
                  /\ st.c * 10 = bounceFactorOr(behaviorObj.boundary.bounceFactor)

\* C23 -- Teardown frees the engine: once the effects of an unmount or of a
\* render that replaced the engine have run, dispose() has been called on
\* every engine instance that is no longer in use, whatever the update flag.
C23_TeardownFrees ==
    ~component.pending =>
        \A i \in 1..Len(engines) :
            (i # component.engine \/ ~component.mounted) => engines[i].disposed

\* C24 -- Reset takes effect by the next compute cycle: when compute() is the
\* first call after resetVariable(name, newData) on an initialised engine,
\* the state it leaves for that variable is the variable's program applied
\* to newData and to the current state of the other variables, not to the
\* variable's pre-reset state.
C24_ResetByNextCompute ==
    [][(Stepped /\ call.op = "resetVariable" /\ call.name \in VarNames
          /\ Registered(call.name) /\ gpuCompute.initialized) =>
        CurrentData(variables, gpuCompute', call.name) =
            runProgram(MaterialOf(call.name),
                       IF call.name = "positionTex" THEN call.data
                       ELSE CurrentData(variables, gpuCompute, "positionTex"),
                       IF call.name = "velocityTex" THEN call.data
                       ELSE CurrentData(variables, gpuCompute, "velocityTex"),
                       uniformCells)]_vars

C26_AgeUpdate ==
    [][BehaviorStepped =>
        /\ particle'.pos.w = (particle.pos.w + particle'.delta) % TicksPerSecond
        /\ particle'.pos.w >= 0 /\ particle'.pos.w < TicksPerSecond
        /\ particle'.pos =
              execProgram(shaders.position.program, particle.pos, particle.vel,
                          particle'.delta).out
        /\ behaviorObj.boundary.type = "none" => particle'.pos.x = Integrated]_vars

\* An age one tick below 1.0 has wrapped to 0 in a step of one tick, and a
\* second step has advanced it again.
C26_Witness ==
    /\ particle.n = 2
    /\ particle.delta = MAX_DELTA_TIME
    /\ particle.pos.w = MAX_DELTA_TIME
    /\ particle.vel.x # 0

\* C27 -- Bounds invariant: under the wrap or the bounce policy with
\* min <= max, the position component stored by every position step lies in
\* [min, max], whatever the pre-step position, velocity and delta.
C27_BoundsInvariant ==
    [][(BehaviorStepped /\ behaviorObj.boundary.type \in {"wrap", "bounce"}
          /\ behaviorObj.boundary.min <= behaviorObj.boundary.max) =>
        /\ particle'.pos.x >= behaviorObj.boundary.min * Hundredth
        /\ particle'.pos.x <= behaviorObj.boundary.max * Hundredth]_vars

\* C28 -- Parameter isolation between variables: on an engine built as the
\* driver builds it, setUniform(name, property, value) stores the value in
\* the named parameter of the named variable and leaves every parameter of
\* every other variable, the same-named one included, and all buffers and
\* the current index unchanged.
C28_ParameterIsolation ==
    [][(call'.op = "setUniform" /\ call'.name \in VarNames
          /\ Registered("positionTex") /\ Registered("velocityTex")
          /\ MaterialOf("positionTex") = PositionMaterial
          /\ MaterialOf("velocityTex") = VelocityMaterial) =>
        /\ variables' = variables /\ gpuCompute' = gpuCompute
        /\ MaterialOf(call'.name).uniforms[call'.prop] # 0 =>
              uniformCells'[MaterialOf(call'.name).uniforms[call'.prop]] = call'.value
        /\ \A m \in VarNames \ {call'.name} : \A p \in Props :
              MaterialOf(m).uniforms[p] # 0 =>
                 uniformCells'[MaterialOf(m).uniforms[p]]
                    = uniformCells[MaterialOf(m).uniforms[p]]]_vars

\* The number of passes run for the variable registered under a name.
RenderedOf(gc, vs, n) == gc.variables[vs[n]].rendered

\* C29 -- Lockstep swapping: after every call all registered variables have
\* been stepped the same number of times, once per compute(), and have the
\* same current buffer; a compute() advances every registered variable and
\* flips the current buffer of each; resetVariable and setUniform change
\* neither the current buffer nor the number of steps of any variable.
C29_Lockstep ==
    [][/\ \A n \in VarNames : variables'[n] # 0 =>
             /\ RenderedOf(gpuCompute', variables', n) = steps'
             /\ \A m \in VarNames : variables'[m] # 0 =>
                   GPGPU_getCurrentRenderTarget(variables', gpuCompute', n).buf
                      = GPGPU_getCurrentRenderTarget(variables', gpuCompute', m).buf
       /\ Stepped =>
             \A n \in VarNames : Registered(n) =>
                /\ RenderedOf(gpuCompute', variables, n) = RenderedOf(gpuCompute, variables, n) + 1
                /\ GPGPU_getCurrentRenderTarget(variables, gpuCompute', n).buf
                      # GPGPU_getCurrentRenderTarget(variables, gpuCompute, n).buf
       /\ call'.op \in {"resetVariable", "setUniform"} =>
             /\ gpuCompute'.currentTextureIndex = gpuCompute.currentTextureIndex
             /\ \A n \in VarNames : Registered(n) =>
                   /\ variables'[n] = variables[n]
                   /\ RenderedOf(gpuCompute', variables, n) = RenderedOf(gpuCompute, variables, n)
                   /\ GPGPU_getCurrentRenderTarget(variables, gpuCompute', n).buf
                         = GPGPU_getCurrentRenderTarget(variables, gpuCompute, n).buf]_vars

\* resetVariable after two steps of an engine with both variables: each has
\* been stepped twice and the first buffer is current again.
C29_Witness ==
    /\ call.op = "resetVariable" /\ call.name = "velocityTex"
    /\ steps = 2 /\ gpuCompute.initialized
    /\ Registered("positionTex") /\ Registered("velocityTex")
    /\ RenderedOf(gpuCompute, variables, "positionTex") = 2
    /\ RenderedOf(gpuCompute, variables, "velocityTex") = 2
    /\ GPGPU_getCurrentRenderTarget(variables, gpuCompute, "positionTex").buf = 0
    /\ GPGPU_getCurrentRenderTarget(variables, gpuCompute, "velocityTex").buf = 0

\* C30 -- No step on a disposed engine: in every interleaving of frames,
\* effect cleanups and engine re-creations, no compute() is called and no
\* current texture is read for display on an engine instance after its
\* dispose(), and the engine that is the active instance of the mounted
\* component is not disposed.
C30_NoStepOnDisposed ==
    /\ \A i \in 1..Len(engines) : ~engines[i].stepped /\ ~engines[i].displayed
    /\ component.mounted => ~engines[component.engine].disposed

====
